---- MODULE Spec2Model ----
(***************************************************************************)
(* Metriscope: MetricsExplorer (src/main.py).                              *)
(*                                                                         *)
(* A Python str is modelled as a sequence of one-character strings, so     *)
(* that split, startswith, index, rindex, the label regular expression,    *)
(* lower() and float() are computed character by character as the code     *)
(* computes them.                                                          *)
(***************************************************************************)
EXTENDS Integers, Sequences, FiniteSets, TLC

(***************************************************************************)
(* Characters                                                              *)
(***************************************************************************)
UpperChars == <<"A","B","C","D","E","F","G","H","I","J","K","L","M",
                "N","O","P","Q","R","S","T","U","V","W","X","Y","Z">>
LowerChars == <<"a","b","c","d","e","f","g","h","i","j","k","l","m",
                "n","o","p","q","r","s","t","u","v","w","x","y","z">>
DigitChars == <<"0","1","2","3","4","5","6","7","8","9">>

Range(s) == {s[i] : i \in 1..Len(s)}

IsDigit(c) == c \in Range(DigitChars)

\* \w of the re module on the model's characters: letters, digits, '_'
IsWordChar(c) == c \in Range(UpperChars) \cup Range(LowerChars) \cup Range(DigitChars) \cup {"_"}

\* The characters of the model are those of ASCII.  The vertical tab and the four
\* separators have no escape in a string, so each stands as the character itself.
VerticalTab == ""       \* '\x0b'
FileSeparator == ""     \* '\x1c'
GroupSeparator == ""    \* '\x1d'
RecordSeparator == ""   \* '\x1e'
UnitSeparator == ""     \* '\x1f'

\* the white space of str.strip()
IsSpaceChar(c) ==
    c \in {" ", "\t", "\n", "\r", "\f", VerticalTab,
           FileSeparator, GroupSeparator, RecordSeparator, UnitSeparator}

\* the white space of float(): the four separators are not part of it
IsFloatSpaceChar(c) == c \in {" ", "\t", "\n", "\r", "\f", VerticalTab}

DigitVal(c) == (CHOOSE i \in 1..Len(DigitChars) : DigitChars[i] = c) - 1

\* str.lower() on one character
LowerChar(c) ==
    IF c \in Range(UpperChars)
    THEN LowerChars[CHOOSE i \in 1..Len(UpperChars) : UpperChars[i] = c]
    ELSE c

\* str.lower()
Lower(s) == [i \in 1..Len(s) |-> LowerChar(s[i])]

(***************************************************************************)
(* str operations                                                          *)
(***************************************************************************)
\* s[a:] with a 0-based start (Python slice), a >= 0
SliceFrom(s, a) == SubSeq(s, a + 1, Len(s))

\* s[a:b] with 0-based bounds 0 <= a, 0 <= b (empty when b <= a)
Slice(s, a, b) == SubSeq(s, a + 1, IF b > Len(s) THEN Len(s) ELSE b)

\* s.startswith(p)
StartsWith(s, p) == Len(s) >= Len(p) /\ SubSeq(s, 1, Len(p)) = p

\* c in s, for a one-character c
HasChar(s, c) == \E i \in 1..Len(s) : s[i] = c

\* s.index(c): 0-based position of the first c (the caller guards c in s)
Index(s, c) == (CHOOSE i \in 1..Len(s) : s[i] = c /\ \A j \in 1..(i - 1) : s[j] # c) - 1

\* s.rindex(c): 0-based position of the last c (raises ValueError when absent,
\* which the caller models with HasChar)
RIndex(s, c) == (CHOOSE i \in 1..Len(s) : s[i] = c /\ \A j \in (i + 1)..Len(s) : s[j] # c) - 1

\* needle in hay (substring test; the empty needle is in every string)
Contains(hay, needle) ==
    \E i \in 0..(Len(hay) - Len(needle)) : SubSeq(hay, i + 1, i + Len(needle)) = needle

\* s.split(c): the list of the pieces between the occurrences of c
RECURSIVE Split(_, _)
Split(s, c) ==
    IF ~HasChar(s, c) THEN <<s>>
    ELSE LET i == Index(s, c)
         IN <<Slice(s, 0, i)>> \o Split(SliceFrom(s, i + 1), c)

\* s.split(c, 1): at most one split, at the first c
Split1(s, c) ==
    IF ~HasChar(s, c) THEN <<s>>
    ELSE LET i == Index(s, c) IN <<Slice(s, 0, i), SliceFrom(s, i + 1)>>

\* s.strip()
RECURSIVE LStrip(_)
LStrip(s) == IF s # <<>> /\ IsSpaceChar(Head(s)) THEN LStrip(Tail(s)) ELSE s
RECURSIVE RStrip(_)
RStrip(s) ==
    IF s # <<>> /\ IsSpaceChar(s[Len(s)]) THEN RStrip(SubSeq(s, 1, Len(s) - 1)) ELSE s
Strip(s) == RStrip(LStrip(s))

(***************************************************************************)
(* float(value_str)                                                        *)
(*                                                                         *)
(* A float is a 64-bit double.  A finite one is kept as sign * m * 2^e,    *)
(* where m is a binary numeral (a sequence of bits, most significant       *)
(* first) of at most 53 bits that ends in 1, -1074 <= e, and               *)
(* m * 2^e < 2^1024; zero is the empty numeral with e = 0, and it keeps    *)
(* its sign as a double does (-0.0 == 0.0 holds in Python, yet the two     *)
(* print differently).  The decimal token is rounded to the nearest such   *)
(* number, ties to the even one, as float() does; what is too large        *)
(* becomes an infinity and what is too small becomes zero.  Decimal        *)
(* numerals are sequences of digits 0..9, so that no number of the         *)
(* conversion exceeds 32 bits.                                             *)
(***************************************************************************)
NoFloat == [ok |-> FALSE, kind |-> "none", sign |-> 1, m |-> <<>>, e |-> 0]

Zero(sign) == [ok |-> TRUE, kind |-> "num", sign |-> sign, m |-> <<>>, e |-> 0]

Infinity(sign) == [ok |-> TRUE, kind |-> "inf", sign |-> sign, m |-> <<>>, e |-> 0]

\* a run of digits in which a single '_' may stand between two digits
ValidDigitPart(d) ==
    /\ Len(d) >= 1
    /\ \A i \in 1..Len(d) : IsDigit(d[i]) \/ d[i] = "_"
    /\ IsDigit(d[1]) /\ IsDigit(d[Len(d)])
    /\ \A i \in 1..(Len(d) - 1) : ~(d[i] = "_" /\ d[i + 1] = "_")

\* the digits 0..9 of a digit part, underscores left out
DigitsOf(d) == LET ds == SelectSeq(d, IsDigit) IN [i \in 1..Len(ds) |-> DigitVal(ds[i])]

\* the first and the last element of a numeral that is not 0 (0 when it has none)
FirstNonZero(ds) ==
    IF \E i \in 1..Len(ds) : ds[i] # 0
    THEN CHOOSE i \in 1..Len(ds) : ds[i] # 0 /\ \A j \in 1..(i - 1) : ds[j] = 0
    ELSE 0

LastNonZero(ds) ==
    IF \E i \in 1..Len(ds) : ds[i] # 0
    THEN CHOOSE i \in 1..Len(ds) : ds[i] # 0 /\ \A j \in (i + 1)..Len(ds) : ds[j] = 0
    ELSE 0

\* a numeral without its leading zeros, and without its trailing zeros
DropLeadingZeros(ds) ==
    IF FirstNonZero(ds) = 0 THEN <<>> ELSE SubSeq(ds, FirstNonZero(ds), Len(ds))

DropTrailingZeros(ds) == SubSeq(ds, 1, LastNonZero(ds))

Zeros(n) == [i \in 1..n |-> 0]

\* the number of a decimal numeral of at most nine digits
RECURSIVE SmallNat(_)
SmallNat(ds) ==
    IF ds = <<>> THEN 0 ELSE 10 * SmallNat(SubSeq(ds, 1, Len(ds) - 1)) + ds[Len(ds)]

\* float() takes at most MaxDigits digits before the exponent, leading zeros
\* not counted, and at most MaxDigits digits after the point; it reads an
\* exponent of more than nine digits (leading zeros not counted) as MaxAbsExp
MaxDigits == 1000000000
MaxAbsExp == 1100000000

\* the exponent float() computes with, es being the numeral without leading zeros
ExponentOf(es) == IF Len(es) > 9 THEN MaxAbsExp ELSE SmallNat(es)

\* the conversion handles ChunkBits bits at a time: 2^ChunkBits and 5^ChunkBits
ChunkBits == 9
TwoChunk == 512
FiveChunk == 1953125

\* the ChunkBits bits of n < TwoChunk
BitsOfChunk(n) == [i \in 1..ChunkBits |-> (n \div (2 ^ (ChunkBits - i))) % 2]

\* the number of the k digits of ds that end at digit i (fewer when i < k)
RECURSIVE LastDigits(_, _, _)
LastDigits(ds, i, k) ==
    IF k = 0 \/ i < 1 THEN 0 ELSE 10 * LastDigits(ds, i - 1, k - 1) + ds[i]

\* long division of the decimal numeral ds by d, a divisor of 10^ChunkBits: the
\* remainder a prefix of ds leaves is that of its last ChunkBits digits
DivDigits(ds, d) ==
    [q |-> [i \in 1..Len(ds) |->
               ((LastDigits(ds, i - 1, ChunkBits) % d) * 10 + ds[i]) \div d],
     r |-> LastDigits(ds, Len(ds), ChunkBits) % d]

\* the steps of the conversion are run in blocks of BlockSteps steps
BlockSteps == 8

\* one division of the numeral st.q by 2^ChunkBits, the remainder going in
\* front of the bits found so far
IntStep(st) ==
    IF st.q = <<>> THEN st
    ELSE LET dv == DivDigits(st.q, TwoChunk)
         IN  [q |-> DropLeadingZeros(dv.q), bits |-> BitsOfChunk(dv.r) \o st.bits]

\* at most k such divisions
RECURSIVE IntRun(_, _)
IntRun(st, k) == IF k = 0 \/ st.q = <<>> THEN st ELSE IntRun(IntStep(st), k - 1)

RECURSIVE IntLoop(_)
IntLoop(st) == IF st.q = <<>> THEN st.bits ELSE IntLoop(IntRun(st, BlockSteps))

\* the binary numeral of the decimal numeral ds (leading zeros may remain)
IntBits(ds) == IntLoop([q |-> ds, bits |-> <<>>])

\* the first and the last 1 of a binary numeral (0 when it has none)
FirstOne(bits) == FirstNonZero(bits)

LastOne(bits) == LastNonZero(bits)

\* the smallest exponent of a bit of a double, the bits of a significand, the
\* largest exponent of its first bit
MinExp == -1074
Precision == 53
MaxExp == 1023

\* the fraction is used up, or the bits that decide the rounding are there; int
\* holds the bits before the point
FracDone(st, int) ==
    \/ st.fs = <<>>
    \/ Len(st.bits) >= ChunkBits - MinExp
    \/ /\ FirstOne(int \o st.bits) > 0
       /\ Len(int) + Len(st.bits) >= FirstOne(int \o st.bits) + Precision + 1

\* ChunkBits more bits of the fraction 0.fs: 0.fs * 2^ChunkBits is fs followed by
\* ChunkBits zeros, divided by 5^ChunkBits, with the point before the last Len(fs)
\* digits
FracStep(st, int) ==
    IF FracDone(st, int) THEN st
    ELSE LET dv == DivDigits(st.fs \o Zeros(ChunkBits), FiveChunk)
         IN  [fs   |-> DropTrailingZeros(SubSeq(dv.q, ChunkBits + 1, Len(dv.q))),
              bits |-> st.bits \o BitsOfChunk(LastDigits(dv.q, ChunkBits, ChunkBits))]

\* at most k such steps
RECURSIVE FracRun(_, _, _)
FracRun(st, int, k) ==
    IF k = 0 \/ FracDone(st, int) THEN st ELSE FracRun(FracStep(st, int), int, k - 1)

RECURSIVE FracLoop(_, _)
FracLoop(st, int) ==
    IF FracDone(st, int) THEN st ELSE FracLoop(FracRun(st, int, BlockSteps), int)

\* the bits of the fraction 0.fs after the binary point, and what is left of it
FracBits(fs, int) == FracLoop([fs |-> fs, bits |-> <<>>], int)

\* a binary numeral plus one
Increment(bits) ==
    LET z == IF \E i \in 1..Len(bits) : bits[i] = 0
             THEN CHOOSE i \in 1..Len(bits) :
                      bits[i] = 0 /\ \A j \in (i + 1)..Len(bits) : bits[j] = 1
             ELSE 0
    IN  SubSeq(bits, 1, z - 1) \o <<1>> \o Zeros(Len(bits) - z)

\* m * 2^e in normal form: m without leading zeros and ending in 1
Normal(sign, m, e) ==
    IF FirstOne(m) = 0 THEN Zero(sign)
    ELSE [ok |-> TRUE, kind |-> "num", sign |-> sign,
          m |-> SubSeq(m, FirstOne(m), LastOne(m)), e |-> e + (Len(m) - LastOne(m))]

\* bit i of a binary numeral, 0 outside it
BitAt(all, i) == IF i >= 1 /\ i <= Len(all) THEN all[i] ELSE 0

\* the exponent of the last bit kept of a number whose first 1 has exponent top
LowExp(top) == IF top - (Precision - 1) > MinExp THEN top - (Precision - 1) ELSE MinExp

\* the bits lead .. last of all
KeptBits(all, lead, last) == [j \in 1..(last - lead + 1) |-> BitAt(all, lead + j - 1)]

\* round to nearest, ties to even: the bit after the last one kept is 1, and
\* either something follows it or the last bit kept is 1
RoundsUp(all, last, sticky) ==
    /\ BitAt(all, last + 1) = 1
    /\ \/ sticky
       \/ \E i \in (last + 2)..Len(all) : all[i] = 1
       \/ BitAt(all, last) = 1

\* m * 2^low, or an infinity when that is 2^1024 or more
Finite(sign, m, low) ==
    IF low + Len(m) - 1 > MaxExp THEN Infinity(sign) ELSE Normal(sign, m, low)

RoundAt(sign, all, last, lead, low, sticky) ==
    Finite(sign,
           IF RoundsUp(all, last, sticky) THEN Increment(KeptBits(all, lead, last))
           ELSE KeptBits(all, lead, last),
           low)

RoundFrom(sign, all, n, sticky, lead) ==
    IF lead = 0 THEN Zero(sign)
    ELSE RoundAt(sign, all, n - LowExp(n - lead), lead, LowExp(n - lead), sticky)

\* the double nearest to the number whose bits are all, the point standing after
\* the first n of them; sticky tells that the number is a bit larger than that
RoundBits(sign, all, n, sticky) == RoundFrom(sign, all, n, sticky, FirstOne(all))

Rounded(sign, int, fr) == RoundBits(sign, int \o fr.bits, Len(int), fr.fs # <<>>)

FromBits(sign, int, fp) == Rounded(sign, int, FracBits(DropTrailingZeros(fp), int))

\* the digits of ds * 10^x before the point, and those after it
IntegerDigits(ds, x) ==
    IF x >= 0 THEN ds \o Zeros(x)
    ELSE IF Len(ds) > -x THEN SubSeq(ds, 1, Len(ds) + x) ELSE <<>>

FractionDigits(ds, x) ==
    IF x >= 0 THEN <<>>
    ELSE IF Len(ds) > -x THEN SubSeq(ds, Len(ds) + x + 1, Len(ds))
    ELSE Zeros(-x - Len(ds)) \o ds

\* the double nearest to 0.ds * 10^p, ds a decimal numeral without leading
\* zeros: with p > 310 the number is beyond the largest double, with p < -330
\* below half the smallest one
DecimalToDouble(sign, ds, p) ==
    IF ds = <<>> THEN Zero(sign)
    ELSE IF p > 310 THEN Infinity(sign)
    ELSE IF p < -330 THEN Zero(sign)
    ELSE FromBits(sign, IntBits(IntegerDigits(ds, p - Len(ds))),
                  FractionDigits(ds, p - Len(ds)))

HasSign(s) == s # <<>> /\ s[1] \in {"+", "-"}
SignOf(s) == IF s # <<>> /\ s[1] = "-" THEN -1 ELSE 1
Unsigned(s) == IF HasSign(s) THEN Tail(s) ELSE s

\* the decimal number r (no sign): digits [. digits] [e [sign] digits]
ParseNumber(sign, r) ==
    LET hasE  == HasChar(Lower(r), "e")
        epos  == IF hasE THEN Index(Lower(r), "e") ELSE Len(r)
        mant  == Slice(r, 0, epos)
        exps  == IF hasE THEN SliceFrom(r, epos + 1) ELSE <<>>
        hasP  == HasChar(mant, ".")
        ppos  == IF hasP THEN Index(mant, ".") ELSE Len(mant)
        ip    == Slice(mant, 0, ppos)
        fp    == IF hasP THEN SliceFrom(mant, ppos + 1) ELSE <<>>
        mantOk == /\ ip = <<>> \/ ValidDigitPart(ip)
                  /\ fp = <<>> \/ ValidDigitPart(fp)
                  /\ ~(ip = <<>> /\ fp = <<>>)
        expOk  == ~hasE \/ ValidDigitPart(Unsigned(exps))
        es     == DropLeadingZeros(DigitsOf(Unsigned(exps)))
        ds     == DropLeadingZeros(DigitsOf(ip \o fp))
    IN  IF mantOk /\ expOk /\ Len(ds) <= MaxDigits /\ Len(DigitsOf(fp)) <= MaxDigits
        THEN DecimalToDouble(sign, DropTrailingZeros(ds),
                             SignOf(exps) * ExponentOf(es) + Len(ds) - Len(DigitsOf(fp)))
        ELSE NoFloat

\* white space float() strips from both ends of its argument
RECURSIVE FloatStrip(_)
FloatStrip(s) ==
    IF s # <<>> /\ IsFloatSpaceChar(s[1]) THEN FloatStrip(Tail(s))
    ELSE IF s # <<>> /\ IsFloatSpaceChar(s[Len(s)]) THEN FloatStrip(SubSeq(s, 1, Len(s) - 1))
    ELSE s

\* float(tok): [ok |-> FALSE, ...] stands for ValueError
ParseFloat(tok) ==
    LET s    == FloatStrip(tok)
        sign == SignOf(s)
        r    == Unsigned(s)
        lr   == Lower(r)
    IN  IF lr \in {<<"i","n","f">>, <<"i","n","f","i","n","i","t","y">>}
        THEN Infinity(sign)
        ELSE IF lr = <<"n","a","n">>
        THEN [ok |-> TRUE, kind |-> "nan", sign |-> 1, m |-> <<>>, e |-> 0]
        ELSE ParseNumber(sign, r)

(***************************************************************************)
(* re.findall over labels_str of the pattern: a group of one or more word  *)
(* characters, an equals sign, a double quote, a group of any characters   *)
(* but the double quote, a double quote                                    *)
(***************************************************************************)
\* first position >= i (1-based) of s that holds no word character
RECURSIVE WordEnd(_, _)
WordEnd(s, i) == IF i <= Len(s) /\ IsWordChar(s[i]) THEN WordEnd(s, i + 1) ELSE i

\* first position >= i (1-based) of s that holds a double quote, Len(s) + 1 when none
RECURSIVE QuoteAt(_, _)
QuoteAt(s, i) == IF i <= Len(s) /\ s[i] # "\"" THEN QuoteAt(s, i + 1) ELSE i

\* the matches from position i on, leftmost first and not overlapping: the key
\* group takes the whole run of word characters, then come the equals sign and the
\* quote, then the value group takes everything up to the next double quote
RECURSIVE FindAllFrom(_, _)
FindAllFrom(s, i) ==
    IF i > Len(s) THEN <<>>
    ELSE LET j == WordEnd(s, i)
             k == QuoteAt(s, j + 2)
         IN  IF /\ j > i
                /\ j + 1 <= Len(s) /\ s[j] = "=" /\ s[j + 1] = "\""
                /\ k <= Len(s)
             THEN <<[key |-> SubSeq(s, i, j - 1), val |-> SubSeq(s, j + 2, k - 1)]>>
                  \o FindAllFrom(s, k + 1)
             ELSE FindAllFrom(s, i + 1)

FindAll(s) == FindAllFrom(s, 1)

\* labels = {}; for label_pair in pairs: labels[label_pair[0]] = label_pair[1]
LabelsOf(pairs) ==
    [k \in {pairs[i].key : i \in 1..Len(pairs)} |->
        pairs[CHOOSE i \in 1..Len(pairs) :
                 pairs[i].key = k /\ \A j \in (i + 1)..Len(pairs) : pairs[j].key # k].val]

(***************************************************************************)
(* The body of the try block of fetch_metrics, up to the tuple it appends  *)
(***************************************************************************)
NoSample == [ok |-> FALSE, name |-> <<>>, value |-> NoFloat, labels |-> <<>>]

\* a decoder that closes the label block at the first closing brace
DecodePartsFirstClose(name_part, value_str) ==
    LET braced == HasChar(name_part, "{")
        metric_name == IF braced THEN Slice(name_part, 0, Index(name_part, "{"))
                       ELSE name_part
        value == ParseFloat(value_str)
    IN  IF braced /\ ~HasChar(name_part, "}") THEN NoSample
        ELSE IF ~value.ok THEN NoSample
        ELSE [ok |-> TRUE, name |-> metric_name, value |-> value,
              labels |-> IF braced
                         THEN LabelsOf(FindAll(Slice(name_part,
                                  Index(name_part, "{") + 1, Index(name_part, "}"))))
                         ELSE <<>>]

\* the try block from the label parsing on, given the two unpacked tokens
DecodeParts(name_part, value_str) ==
    LET braced == HasChar(name_part, "{")
        metric_name == IF braced THEN Slice(name_part, 0, Index(name_part, "{"))
                       ELSE name_part
        value == ParseFloat(value_str)
    IN  IF braced /\ ~HasChar(name_part, "}") THEN NoSample   \* rindex raises
        ELSE IF ~value.ok THEN NoSample                        \* float raises
        ELSE [ok |-> TRUE, name |-> metric_name, value |-> value,
              labels |-> IF braced
                         THEN LabelsOf(FindAll(Slice(name_part,
                                  Index(name_part, "{") + 1, RIndex(name_part, "}"))))
                         ELSE <<>>]

\* a decoder that takes the first and the last token of the split, however many
\* there are, instead of unpacking exactly two
DecodeSampleLenient(line) ==
    LET parts == Split(line, " ")
    IN  IF Len(parts) < 2 THEN NoSample
        ELSE DecodeParts(parts[1], parts[Len(parts)])

\* name_part, value_str = line.split(' ') and the rest of the try block
DecodeSample(line) ==
    LET parts == Split(line, " ")
    IN  IF Len(parts) # 2 THEN NoSample          \* unpacking raises ValueError
        ELSE DecodeParts(parts[1], parts[2])

(***************************************************************************)
(* Re-encoding of a decoded sample (spec 8, first property): the name, the *)
(* label block when there are labels, one space, the value                  *)
(***************************************************************************)
\* the decimal digits of a natural number
RECURSIVE NatToDigits(_)
NatToDigits(n) ==
    IF n < 10 THEN <<DigitChars[n + 1]>>
    ELSE NatToDigits(n \div 10) \o <<DigitChars[(n % 10) + 1]>>

\* the number of a binary numeral of at most ChunkBits bits
RECURSIVE ChunkValue(_)
ChunkValue(bits) ==
    IF bits = <<>> THEN 0
    ELSE 2 * ChunkValue(SubSeq(bits, 1, Len(bits) - 1)) + bits[Len(bits)]

\* the ChunkBits decimal digits of n < 10^ChunkBits
PadDigits(n) == [i \in 1..ChunkBits |-> (n \div (10 ^ (ChunkBits - i))) % 10]

\* the decimal numeral of a binary numeral, ChunkBits bits at a time:
\* n * 2^ChunkBits + c is n followed by the digits of c * 5^ChunkBits, divided
\* by 5^ChunkBits
RECURSIVE DecimalOfBits(_)
DecimalOfBits(bits) ==
    IF bits = <<>> THEN <<>>
    ELSE LET k  == IF Len(bits) > ChunkBits THEN Len(bits) - ChunkBits ELSE 0
             c  == ChunkValue(SubSeq(bits, k + 1, Len(bits)))
         IN  DropLeadingZeros(
                 DivDigits(DecimalOfBits(SubSeq(bits, 1, k)) \o PadDigits(c * FiveChunk),
                           FiveChunk).q)

\* the decimal numeral st.ds times b^st.n, b being 2 or 5, at most ChunkBits
\* factors at a time: ds * 2^k is ds followed by k zeros, divided by 5^k, and
\* ds * 5^k is ds followed by k zeros, divided by 2^k
PowerStep(st, b) ==
    IF st.n = 0 THEN st
    ELSE LET k == IF st.n > ChunkBits THEN ChunkBits ELSE st.n
         IN  [ds |-> DropLeadingZeros(DivDigits(st.ds \o Zeros(k), (10 \div b) ^ k).q),
              n  |-> st.n - k]

RECURSIVE PowerRun(_, _, _)
PowerRun(st, b, k) == IF k = 0 \/ st.n = 0 THEN st ELSE PowerRun(PowerStep(st, b), b, k - 1)

RECURSIVE PowerLoop(_, _)
PowerLoop(st, b) == IF st.n = 0 THEN st.ds ELSE PowerLoop(PowerRun(st, b, BlockSteps), b)

TimesPower(ds, b, n) == PowerLoop([ds |-> ds, n |-> n], b)

\* a token for a float: inf, -inf, nan, or the decimal numeral of m * 2^e when
\* e >= 0 and that of m * 5^(-e) followed by the exponent e when e < 0, which is
\* the value of the float exactly
EncodeFloat(v) ==
    IF v.kind = "inf" THEN (IF v.sign < 0 THEN <<"-">> ELSE <<>>) \o <<"i","n","f">>
    ELSE IF v.kind = "nan" THEN <<"n","a","n">>
    ELSE LET ds == IF v.e >= 0 THEN TimesPower(DecimalOfBits(v.m), 2, v.e)
                   ELSE TimesPower(DecimalOfBits(v.m), 5, -v.e)
         IN  (IF v.sign < 0 THEN <<"-">> ELSE <<>>)
             \o (IF ds = <<>> THEN <<"0">> ELSE [i \in 1..Len(ds) |-> DigitChars[ds[i] + 1]])
             \o (IF v.e < 0 THEN <<"e", "-">> \o NatToDigits(-v.e) ELSE <<>>)

\* key=<q>value<q> for every key of keys, with commas between them
RECURSIVE EncodeLabels(_, _)
EncodeLabels(labels, keys) ==
    IF keys = {} THEN <<>>
    ELSE LET k == CHOOSE x \in keys : TRUE
         IN  k \o <<"=", "\"">> \o labels[k] \o <<"\"">>
             \o (IF keys = {k} THEN <<>> ELSE <<",">> \o EncodeLabels(labels, keys \ {k}))

\* the line of a sample
EncodeSample(smp) ==
    smp.name
    \o (IF DOMAIN smp.labels = {} THEN <<>>
        ELSE <<"{">> \o EncodeLabels(smp.labels, DOMAIN smp.labels) \o <<"}">>)
    \o <<" ">> \o EncodeFloat(smp.value)

(***************************************************************************)
(* Queries over a sample list (the loops of group_metrics, search_metrics  *)
(* and show_metric_details)                                                *)
(***************************************************************************)
\* groups after the loop of group_metrics has visited list[i..]
RECURSIVE GroupLoop(_, _, _)
GroupLoop(list, i, groups) ==
    IF i > Len(list) THEN groups
    ELSE LET metric_name == list[i].name
             group == Split(metric_name, "_")[1]
             g1 == IF group \in DOMAIN groups THEN groups
                   ELSE [k \in DOMAIN groups \cup {group} |->
                            IF k = group THEN <<>> ELSE groups[k]]
             g2 == IF \E j \in 1..Len(g1[group]) : g1[group][j] = metric_name THEN g1
                   ELSE [g1 EXCEPT ![group] = Append(@, metric_name)]
         IN  GroupLoop(list, i + 1, g2)

\* a grouping that appends a name at each of its samples (no membership test)
RECURSIVE GroupLoopAll(_, _, _)
GroupLoopAll(list, i, groups) ==
    IF i > Len(list) THEN groups
    ELSE LET metric_name == list[i].name
             group == Split(metric_name, "_")[1]
             g1 == IF group \in DOMAIN groups THEN groups
                   ELSE [k \in DOMAIN groups \cup {group} |->
                            IF k = group THEN <<>> ELSE groups[k]]
         IN  GroupLoopAll(list, i + 1, [g1 EXCEPT ![group] = Append(@, metric_name)])

GroupOfAll(list) == GroupLoopAll(list, 1, <<>>)

\* groups = {} and the loop of group_metrics
GroupOf(list) == GroupLoop(list, 1, <<>>)

\* results after the loop of search_metrics has visited list[i..]
RECURSIVE SearchLoop(_, _, _, _, _)
SearchLoop(list, search_term, i, results, seen) ==
    IF i > Len(list) THEN results
    ELSE LET s == list[i]
             hit == \/ Contains(Lower(s.name), Lower(search_term))
                    \/ Contains(Lower(s.help), Lower(search_term))
         IN  IF hit /\ s.name \notin seen
             THEN SearchLoop(list, search_term, i + 1,
                      Append(results, [name |-> s.name, help |-> s.help, value |-> s.value]),
                      seen \cup {s.name})
             ELSE SearchLoop(list, search_term, i + 1, results, seen)

\* a search that marks a name as seen at its first sample, matching or not
RECURSIVE SearchLoopSeenAll(_, _, _, _, _)
SearchLoopSeenAll(list, search_term, i, results, seen) ==
    IF i > Len(list) THEN results
    ELSE LET s == list[i]
             hit == \/ Contains(Lower(s.name), Lower(search_term))
                    \/ Contains(Lower(s.help), Lower(search_term))
         IN  SearchLoopSeenAll(list, search_term, i + 1,
                 IF hit /\ s.name \notin seen
                 THEN Append(results, [name |-> s.name, help |-> s.help, value |-> s.value])
                 ELSE results,
                 seen \cup {s.name})

SearchOfSeenAll(list, search_term) == SearchLoopSeenAll(list, search_term, 1, <<>>, {})

\* results = []; seen = set() and the loop of search_metrics
SearchOf(list, search_term) == SearchLoop(list, search_term, 1, <<>>, {})

\* a value list that stops at the first sample of the name
RECURSIVE ValuesLoopFirst(_, _, _)
ValuesLoopFirst(list, metric_name, i) ==
    IF i > Len(list) THEN <<>>
    ELSE IF list[i].name = metric_name
         THEN <<[value |-> list[i].value, labels |-> list[i].labels]>>
         ELSE ValuesLoopFirst(list, metric_name, i + 1)

\* values = [(metric_name, value, labels) for name, value, labels, _ in cache if name == metric_name]
RECURSIVE ValuesLoop(_, _, _)
ValuesLoop(list, metric_name, i) ==
    IF i > Len(list) THEN <<>>
    ELSE (IF list[i].name = metric_name
          THEN <<[value |-> list[i].value, labels |-> list[i].labels]>> ELSE <<>>)
         \o ValuesLoop(list, metric_name, i + 1)

\* what show_metric_details prints: the Type and Help lines when the name is in
\* help_cache, then one Value line per entry of values ("No current values found"
\* when values is empty)
DetailsOf(list, cache, metric_name) ==
    [has_meta |-> metric_name \in DOMAIN cache,
     type     |-> IF metric_name \in DOMAIN cache THEN cache[metric_name].type ELSE <<>>,
     help     |-> IF metric_name \in DOMAIN cache THEN cache[metric_name].help ELSE <<>>,
     values   |-> ValuesLoop(list, metric_name, 1)]

(***************************************************************************)
(* Inputs: the texts GET /metrics may answer with                          *)
(***************************************************************************)
HelpMarker == <<"#"," ","H","E","L","P"," ">>
TypeMarker == <<"#"," ","T","Y","P","E"," ">>

\* # HELP x Cpu
LineHelpX == <<"#"," ","H","E","L","P"," ","x"," ","C","p","u">>
\* # TYPE x counter
LineTypeX == <<"#"," ","T","Y","P","E"," ","x"," ","c","o","u","n","t","e","r">>
\* x 1
LineX1 == <<"x"," ","1">>
\* x{a=<q>b<q>} 2      (<q> is the double quote)
LineXLabel == <<"x","{","a","=","\"","b","\"","}"," ","2">>
\* y_z 1.5
LineYZ == <<"y","_","z"," ","1",".","5">>
\* # HELP foo          (no space after the metric name)
LineHelpNoText == <<"#"," ","H","E","L","P"," ","f","o","o">>
\* bad_metric_no_value
LineNoValue == <<"b","a","d","_","m","e","t","r","i","c","_","n","o","_","v","a","l","u","e">>
LineEmpty == <<>>
\* # TYPE foo          (no space after the metric name)
LineTypeNoToken == <<"#"," ","T","Y","P","E"," ","f","o","o">>
\* x  1                (two spaces)
LineTwoSpaces == <<"x"," "," ","1">>
\* x abc
LineBadFloat == <<"x"," ","a","b","c">>
\* x{garbage} 3        (no key=<q>value<q> pair between the braces)
LineBadLabels == <<"x","{","g","a","r","b","a","g","e","}"," ","3">>
\* x{a=<q>b<q> 4       (no closing brace)
LineNoClose == <<"x","{","a","=","\"","b","\""," ","4">>
\* # note
LineComment == <<"#"," ","n","o","t","e">>
\* a space and a tab
LineBlank == <<" ","\t">>
\* y_z +Inf
LineInf == <<"y","_","z"," ","+","I","n","f">>
\* x{a=<q>b<q>,a=<q>c<q>} 1e1
LineDupKey == <<"x","{","a","=","\"","b","\"",",","a","=","\"","c","\"","}"," ","1","e","1">>
\* # HELP y_z mem used
LineHelpY == <<"#"," ","H","E","L","P"," ","y","_","z"," ","m","e","m"," ","u","s","e","d">>

\* x{a=<q>b c<q>} 1    (a space inside the label value)
LineLabelSpace == <<"x","{","a","=","\"","b"," ","c","\"","}"," ","1">>

\* x{a=<q>{}<q>} 2     (braces inside the label value)
LineBraceInValue == <<"x","{","a","=","\"","{","}","\"","}"," ","2">>

\* # 1                (a comment whose two tokens are a name and a float)
LineCommentNumber == <<"#"," ","1">>

\* x <0x0b>1           (a vertical tab before the value: float() strips it)
LineVerticalTab == <<"x"," ",VerticalTab,"1">>

\* x <0x1c>1           (a separator before the value: float() does not strip it)
LineSeparatorValue == <<"x"," ",FileSeparator,"1">>

\* <0x1f>              (blank for str.strip())
LineSeparatorOnly == <<UnitSeparator>>

\* y_z 1e400           (beyond the largest double)
LineOverflow == <<"y","_","z"," ","1","e","4","0","0">>

\* x -1e-400           (below the smallest double)
LineUnderflow == <<"x"," ","-","1","e","-","4","0","0">>

\* x 3000000000        (an integer of more than 31 bits)
LineBigInteger == <<"x"," ","3","0","0","0","0","0","0","0","0","0">>

\* the lines every text of up to MaxLines lines is made of
LinePool == {LineHelpX, LineTypeX, LineX1, LineXLabel, LineYZ}

\* lines that are put between two lines of LineContext
SpecialLines ==
    {LineNoValue, LineEmpty, LineHelpNoText, LineTypeNoToken, LineTwoSpaces, LineBadFloat, LineBadLabels, LineNoClose,
     LineComment, LineBlank, LineInf, LineDupKey, LineHelpY, LineLabelSpace,
     LineBraceInValue, LineCommentNumber, LineVerticalTab, LineSeparatorValue,
     LineSeparatorOnly, LineOverflow, LineUnderflow, LineBigInteger}

LineContext == {LineHelpX, LineX1}

MaxLines == 3

\* '\n'.join(ls)
RECURSIVE Join(_)
Join(ls) ==
    IF ls = <<>> THEN <<>>
    ELSE IF Len(ls) = 1 THEN ls[1]
    ELSE ls[1] \o <<"\n">> \o Join(Tail(ls))

\* the document of the first-seen-wins example
TextFirstSeen ==
    <<"#"," ","H","E","L","P"," ","x"," ","f","i","r","s","t">>
    \o <<"\n">> \o <<"#"," ","T","Y","P","E"," ","x"," ","c","o","u","n","t","e","r">>
    \o <<"\n">> \o <<"x"," ","1">>
    \o <<"\n">> \o <<"#"," ","H","E","L","P"," ","x"," ","s","e","c","o","n","d">>
    \o <<"\n">> \o <<"x"," ","2">>

\* the document of the search example
TextSearchCpu ==
    <<"#"," ","H","E","L","P"," ","n","o","d","e","_","c","p","u","_","s","e","c","o","n","d","s","_","t","o","t","a","l"," ","C","P","U"," ","t","i","m","e">>
    \o <<"\n">> \o <<"n","o","d","e","_","c","p","u","_","s","e","c","o","n","d","s","_","t","o","t","a","l","{","c","p","u","=","\"","0","\"","}"," ","1","2","3",".","4">>

\* a document with the three names of the grouping example, the first one twice
TextGroups ==
    <<"n","o","d","e","_","c","p","u","_","s","e","c","o","n","d","s","_","t","o","t","a","l"," ","1">>
    \o <<"\n">> \o <<"n","o","d","e","_","m","e","m","o","r","y","_","b","y","t","e","s"," ","2">>
    \o <<"\n">> \o <<"g","o","_","g","c","_","d","u","r","a","t","i","o","n"," ","3">>
    \o <<"\n">> \o <<"n","o","d","e","_","c","p","u","_","s","e","c","o","n","d","s","_","t","o","t","a","l"," ","4">>

\* the document with a line that has no value, and one valid line
TextNoValue == LineNoValue \o <<"\n">> \o LineX1

\* a document whose pass stores a sample with its help text and then meets a
\* HELP line without a text
TextAbortedPass == LineHelpX \o <<"\n">> \o LineX1 \o <<"\n">> \o LineHelpNoText

Texts ==
    {Join(ls) : ls \in UNION {[1..n -> LinePool] : n \in 0..MaxLines}}
    \cup {Join(<<a, l, b>>) : a \in LineContext, l \in SpecialLines, b \in LineContext}
    \cup {TextFirstSeen, TextSearchCpu, TextGroups, TextNoValue, TextAbortedPass}

\* what requests.get followed by raise_for_status gives: a text, or an exception
Responses == {[ok |-> TRUE, text |-> t] : t \in Texts} \cup {[ok |-> FALSE, text |-> <<>>]}

NameX == <<"x">>
NameYZ == <<"y","_","z">>
NameMissing == <<"m","i","s","s","i","n","g","_","m","e","t","r","i","c">>
NameNodeCpu == <<"n","o","d","e","_","c","p","u","_","s","e","c","o","n","d","s","_","t","o","t","a","l">>
NameNodeMemory == <<"n","o","d","e","_","m","e","m","o","r","y","_","b","y","t","e","s">>
NameGoGc == <<"g","o","_","g","c","_","d","u","r","a","t","i","o","n">>

\* the arguments of search_metrics and of show_metric_details
SearchTerms == {<<"c","p","u">>, <<"X">>, <<"m","e","m">>}
DetailNames == {NameX, NameYZ, NameMissing}

\* query_parses counts up to MaxParses and stays there
MaxParses == 2

(***************************************************************************)
(* One pass of the loop of fetch_metrics over one line                     *)
(***************************************************************************)
\* an insertion that is skipped when there is no help text to store
CacheHelpIfHelp(cache, metric_name, help, type) ==
    IF metric_name \in DOMAIN cache \/ help = <<>> THEN cache
    ELSE [k \in DOMAIN cache \cup {metric_name} |->
             IF k = metric_name THEN [help |-> help, type |-> type] ELSE cache[k]]

\* if metric_name not in self.help_cache: self.help_cache[metric_name] = {...}
CacheHelp(cache, metric_name, help, type) ==
    IF metric_name \in DOMAIN cache THEN cache
    ELSE [k \in DOMAIN cache \cup {metric_name} |->
             IF k = metric_name THEN [help |-> help, type |-> type] ELSE cache[k]]

\* line[7:].split(' ', 1)
MarkerPayload(line) == Split1(SliceFrom(line, 7), " ")

\* a test that hands every line that is not blank to the try block
IsSampleLineNoHash(line) == Strip(line) # <<>>

\* the line is handed to the try block
IsSampleLine(line) == ~StartsWith(line, <<"#">>) /\ Strip(line) # <<>>

\* a loop body that gives a sample the help text of the metadata entry of its
\* name instead of the running current_help
ProcessLineEntryHelp(line, st) ==
    IF StartsWith(line, HelpMarker)
    THEN IF Len(MarkerPayload(line)) < 2
         THEN [st EXCEPT !.raised = "IndexError"]
         ELSE [st EXCEPT !.current_help = MarkerPayload(line)[2]]
    ELSE IF StartsWith(line, TypeMarker)
    THEN IF Len(MarkerPayload(line)) < 2
         THEN [st EXCEPT !.raised = "IndexError"]
         ELSE [st EXCEPT !.current_type = MarkerPayload(line)[2]]
    ELSE IF IsSampleLine(line)
    THEN LET d == DecodeSample(line)
             cache == CacheHelp(st.help_cache, d.name, st.current_help, st.current_type)
         IN  IF ~d.ok THEN st
             ELSE [st EXCEPT
                     !.metrics = Append(@, [name |-> d.name, value |-> d.value,
                                            labels |-> d.labels, help |-> cache[d.name].help]),
                     !.help_cache = cache]
    ELSE st

\* st holds metrics, current_help, current_type and help_cache before the line;
\* the result holds them after it, and raised names the exception that left the
\* loop ("none" when the loop goes on)
ProcessLine(line, st) ==
    IF StartsWith(line, HelpMarker)
    THEN IF Len(MarkerPayload(line)) < 2
         THEN [st EXCEPT !.raised = "IndexError"]
         ELSE [st EXCEPT !.current_help = MarkerPayload(line)[2]]
    ELSE IF StartsWith(line, TypeMarker)
    THEN IF Len(MarkerPayload(line)) < 2
         THEN [st EXCEPT !.raised = "IndexError"]
         ELSE [st EXCEPT !.current_type = MarkerPayload(line)[2]]
    ELSE IF IsSampleLine(line)
    THEN LET d == DecodeSample(line)
         IN  IF ~d.ok THEN st                      \* except Exception: continue
             ELSE [st EXCEPT
                     !.metrics = Append(@, [name |-> d.name, value |-> d.value,
                                            labels |-> d.labels, help |-> st.current_help]),
                     !.help_cache = CacheHelp(@, d.name, st.current_help, st.current_type)]
    ELSE st

(***************************************************************************)
(* State                                                                   *)
(***************************************************************************)
VARIABLES
    metrics_cache,   \* self.metrics_cache: [none |-> TRUE] is None, else the list
    help_cache,      \* self.help_cache: name -> [help, type]
    pc,              \* "idle", "parsing" inside fetch_metrics, "fetched" after it
    call,            \* the method in progress, or the last one: [op, arg]; "query" is a
                     \* fetch whose method is drawn later, "details_fetch" the fetch
                     \* of show_metric_details inside choice '3' of interactive
    lines,           \* response.text.split of the fetch in progress, or of the last one
    pos,             \* how many of them the loop has handled
    metrics,         \* the local list of fetch_metrics
    current_help,    \* the local current_help
    current_type,    \* the local current_type
    result,          \* what the last finished call returned, printed or raised
    query_parses,    \* the number of fetch_metrics calls that returned to a query
    served,          \* the text of the exporter when it does not change
    previous         \* what the fetch_metrics call before the last returned

vars == <<metrics_cache, help_cache, pc, call, lines, pos, metrics, current_help,
          current_type, result, query_parses, served, previous>>

NoDetails == [has_meta |-> FALSE, type |-> <<>>, help |-> <<>>, values |-> <<>>]

NoResult == [raised |-> "none", groups |-> <<>>, found |-> <<>>, details |-> NoDetails,
             samples |-> <<>>]

NoPrevious == [returned |-> FALSE, samples |-> <<>>, meta |-> <<>>]

\* a cache check that takes every cache for unset
CacheIsFalsyAlways(cache) == TRUE

\* not self.metrics_cache
CacheIsFalsy(cache) == cache.none \/ cache.list = <<>>

\* the part of a query after the cache check
Answer(op, arg, list, cache) ==
    IF op = "group" THEN [NoResult EXCEPT !.groups = GroupOf(list)]
    ELSE IF op = "search" THEN [NoResult EXCEPT !.found = SearchOf(list, arg)]
    ELSE [NoResult EXCEPT !.details = DetailsOf(list, cache, arg)]

Fresh ==
    /\ metrics_cache = [none |-> TRUE, list |-> <<>>]
    /\ help_cache = <<>>
    /\ pc = "idle"
    /\ call = [op |-> "none", arg |-> <<>>]
    /\ lines = <<>>
    /\ pos = 0
    /\ metrics = <<>>
    /\ current_help = <<>>
    /\ current_type = <<>>
    /\ result = NoResult
    /\ query_parses = 0
    /\ previous = NoPrevious

Init == Fresh /\ served = <<>>

\* locals that keep the list of the call before
FetchLocalsShared ==
    [metrics |-> result.samples, current_help |-> <<>>, current_type |-> <<>>]

\* metrics = []; current_help = ""; current_type = ""
FetchLocals == [metrics |-> <<>>, current_help |-> <<>>, current_type |-> <<>>]

\* a request whose failure is swallowed: the caller goes on as after a fetch
RequestSwallow(resp) ==
    IF resp.ok
    THEN /\ pc' = "parsing"
         /\ lines' = Split(resp.text, "\n")
         /\ pos' = 0
         /\ metrics' = FetchLocals.metrics
         /\ current_help' = FetchLocals.current_help
         /\ current_type' = FetchLocals.current_type
         /\ result' = NoResult
    ELSE /\ pc' = "fetched"
         /\ result' = [NoResult EXCEPT !.raised = "HTTPError"]
         /\ UNCHANGED <<lines, pos, metrics, current_help, current_type>>

\* requests.get, raise_for_status and the three assignments before the loop; an
\* exception of requests leaves fetch_metrics and its caller
Request(resp) ==
    IF resp.ok
    THEN /\ pc' = "parsing"
         /\ lines' = Split(resp.text, "\n")
         /\ pos' = 0
         /\ metrics' = FetchLocals.metrics
         /\ current_help' = FetchLocals.current_help
         /\ current_type' = FetchLocals.current_type
         /\ result' = NoResult
    ELSE /\ pc' = "idle"
         /\ result' = [NoResult EXCEPT !.raised = "HTTPError"]
         /\ UNCHANGED <<lines, pos, metrics, current_help, current_type>>

\* the first statement of group_metrics, search_metrics and show_metric_details,
\* when the cache is falsy: self.metrics_cache = self.fetch_metrics().  The three
\* methods differ only after it, so the method and its argument are drawn when
\* the fetch has returned (AnswerQuery).  Choice '3' of interactive makes the same
\* check and assignment itself before it calls show_metric_details.
QueryFetch ==
    /\ pc = "idle"
    /\ CacheIsFalsy(metrics_cache)
    /\ call' = [op |-> "query", arg |-> <<>>]
    /\ \E resp \in Responses : Request(resp)
    /\ UNCHANGED <<metrics_cache, help_cache, query_parses, served, previous>>

\* choice '3' of interactive, after its own fetch has stored a falsy list: the
\* names of the list are read, the name is prompted for, and show_metric_details
\* checks the cache again and fetches a second time.  No answer comes between
\* the two fetches, and the second one belongs to show_metric_details alone.
InteractiveDetailsFetch ==
    /\ pc = "fetched"
    /\ call.op = "query"
    /\ CacheIsFalsy(metrics_cache)
    /\ call' = [op |-> "details_fetch", arg |-> <<>>]
    /\ \E resp \in Responses : Request(resp)
    /\ UNCHANGED <<metrics_cache, help_cache, query_parses, served, previous>>

\* the rest of a query: after its fetch has returned, or at once when the cache
\* is truthy; after the fetch of show_metric_details the query is that one
AnswerQuery(op, arg) ==
    /\ \/ pc = "fetched" /\ (call.op = "details_fetch" => op = "details")
       \/ pc = "idle" /\ ~CacheIsFalsy(metrics_cache)
    /\ pc' = "idle"
    /\ call' = [op |-> op, arg |-> arg]
    /\ result' = Answer(op, arg, metrics_cache.list, help_cache)
    /\ UNCHANGED <<metrics_cache, help_cache, lines, pos, metrics, current_help,
                   current_type, query_parses, served, previous>>

GroupMetrics == AnswerQuery("group", <<>>)

SearchMetrics == \E search_term \in SearchTerms : AnswerQuery("search", search_term)

ShowMetricDetails == \E metric_name \in DetailNames : AnswerQuery("details", metric_name)

\* one iteration of the for loop of fetch_metrics; an exception outside the try
\* block leaves fetch_metrics and its caller, and the locals are gone
FetchMetricsLine ==
    /\ pc = "parsing"
    /\ pos < Len(lines)
    /\ LET st == ProcessLine(lines[pos + 1],
                     [metrics |-> metrics, current_help |-> current_help,
                      current_type |-> current_type, help_cache |-> help_cache,
                      raised |-> "none"])
       IN  /\ help_cache' = st.help_cache
           /\ IF st.raised = "none"
              THEN /\ metrics' = st.metrics
                   /\ current_help' = st.current_help
                   /\ current_type' = st.current_type
                   /\ pos' = pos + 1
                   /\ UNCHANGED <<pc, result, lines>>
              ELSE /\ pc' = "idle"
                   /\ result' = [NoResult EXCEPT !.raised = st.raised]
                   /\ lines' = <<>>
                   /\ pos' = 0
                   /\ metrics' = <<>>
                   /\ current_help' = <<>>
                   /\ current_type' = <<>>
    /\ UNCHANGED <<metrics_cache, call, query_parses, served, previous>>

\* return metrics: a query stores the list in self.metrics_cache and goes on, a
\* direct caller of fetch_metrics gets the list
FetchMetricsReturn ==
    /\ pc = "parsing"
    /\ pos = Len(lines)
    /\ IF call.op = "fetch"
       THEN /\ pc' = "idle"
            /\ result' = [NoResult EXCEPT !.samples = metrics]
            /\ UNCHANGED <<metrics_cache, query_parses>>
       ELSE /\ pc' = "fetched"
            /\ metrics_cache' = [none |-> FALSE, list |-> metrics]
            /\ query_parses' = IF query_parses < MaxParses THEN query_parses + 1
                               ELSE query_parses
            /\ UNCHANGED result
    /\ lines' = <<>>
    /\ pos' = 0
    /\ metrics' = <<>>
    /\ current_help' = <<>>
    /\ current_type' = <<>>
    /\ UNCHANGED <<help_cache, call, served, previous>>

\* a caller of fetch_metrics itself, with an exporter whose text is served; the
\* outcome of the call before, when it returned, is kept in previous
FetchMetrics ==
    /\ pc = "idle"
    /\ call' = [op |-> "fetch", arg |-> <<>>]
    /\ Request([ok |-> TRUE, text |-> served])
    /\ previous' = IF call.op = "fetch" /\ result.raised = "none"
                   THEN [returned |-> TRUE, samples |-> result.samples, meta |-> help_cache]
                   ELSE previous
    /\ UNCHANGED <<metrics_cache, help_cache, query_parses, served>>

\* MetricsExplorer(): a new explorer takes the place of the old one
NewExplorer ==
    /\ pc = "idle"
    /\ call.op = "fetch"
    /\ metrics_cache' = [none |-> TRUE, list |-> <<>>]
    /\ help_cache' = <<>>
    /\ call' = [op |-> "none", arg |-> <<>>]
    /\ previous' = IF result.raised = "none"
                   THEN [returned |-> TRUE, samples |-> result.samples, meta |-> help_cache]
                   ELSE previous
    /\ result' = NoResult
    /\ UNCHANGED <<pc, lines, pos, metrics, current_help, current_type, query_parses,
                   served>>

Next ==
    \/ QueryFetch
    \/ InteractiveDetailsFetch
    \/ GroupMetrics
    \/ SearchMetrics
    \/ ShowMetricDetails
    \/ FetchMetricsLine
    \/ FetchMetricsReturn

\* the explorer as its menu uses it: queries, each fetching when the cache is
\* falsy, and choice '3', which fetches on its own before show_metric_details does
Spec == Init /\ [][Next]_vars

\* fetch_metrics called again and again on an exporter whose text does not change
InitFetch == Fresh /\ served \in Texts

NextFetch ==
    \/ FetchMetrics
    \/ NewExplorer
    \/ FetchMetricsLine
    \/ FetchMetricsReturn

SpecFetch == InitFetch /\ [][NextFetch]_vars

(***************************************************************************)
(* Properties                                                              *)
(***************************************************************************)
InLoop == pc = "parsing" /\ pos < Len(lines)

NextLine == lines[pos + 1]

\* the loop went on to the next line and nothing was raised
LoopGoesOn == pc' = "parsing" /\ lines' = lines /\ pos' = pos + 1 /\ result' = result

SpaceCount(line) == Cardinality({i \in 1..Len(line) : line[i] = " "})

\* the text after the first space of a line
AfterFirstSpace(line) == SubSeq(line, Index(line, " ") + 2, Len(line))

\* the text before the first space of a line (the whole line when it has none)
BeforeFirstSpace(line) ==
    IF HasChar(line, " ") THEN SubSeq(line, 1, Index(line, " ")) ELSE line

IsMarkerLine(line) == StartsWith(line, HelpMarker) \/ StartsWith(line, TypeMarker)

\* a HELP or TYPE line with a metric name and no space after it
MalformedMarker(line) == IsMarkerLine(line) /\ ~HasChar(SliceFrom(line, 7), " ")

\* C1: a HELP or TYPE line that has a metric name but no space after it does not
\* abort the parse: the loop goes on with the next line and keeps the samples it
\* has, so the pass returns a sample for every decodable line before and after it.
C1_MalformedMarkerDoesNotAbort ==
    [][(InLoop /\ MalformedMarker(NextLine)) => (LoopGoesOn /\ metrics' = metrics)]_vars

\* a sample line that does not hold exactly one space, or whose value token is no float
BadSampleLine(line) ==
    /\ IsSampleLine(line)
    /\ SpaceCount(line) # 1 \/ ~ParseFloat(AfterFirstSpace(line)).ok

\* C2: a sample line that does not split on a single space into exactly two tokens,
\* or whose value token is not a float, is dropped silently: no sample, no metadata
\* entry, nothing raised, the HELP/TYPE context unchanged, and the loop goes on; the
\* document of one such line and one valid line yields exactly one sample.
C2_BadSampleLineDropped ==
    [][/\ (InLoop /\ BadSampleLine(NextLine)) =>
            /\ LoopGoesOn
            /\ metrics' = metrics
            /\ help_cache' = help_cache
            /\ current_help' = current_help
            /\ current_type' = current_type
       /\ (pc' = "parsing" /\ lines' = <<LineNoValue, LineX1>> /\ pos' = 2) =>
            Len(metrics') = 1]_vars

C2_Witness ==
    pc = "parsing" /\ lines = <<LineNoValue, LineX1>> /\ pos = 2 /\ Len(metrics) = 1

\* line k of ls is a sample line that decodes
Decodes(ls, k) == IsSampleLine(ls[k]) /\ DecodeSample(ls[k]).ok

\* the first line of ls that decodes to a sample of the name of line k
FirstLineOfName(ls, k) ==
    CHOOSE f \in 1..k :
        /\ Decodes(ls, f) /\ DecodeSample(ls[f]).name = DecodeSample(ls[k]).name
        /\ \A j \in 1..(f - 1) :
              ~(Decodes(ls, j) /\ DecodeSample(ls[j]).name = DecodeSample(ls[k]).name)

Last(S) == CHOOSE i \in S : \A j \in S : j <= i

\* the text of the last HELP line before line k ("" when there is none)
HelpBefore(ls, k) ==
    LET H == {j \in 1..(k - 1) : StartsWith(ls[j], HelpMarker)}
    IN  IF H = {} THEN <<>> ELSE AfterFirstSpace(SliceFrom(ls[Last(H)], 7))

\* the token of the last TYPE line before line k ("" when there is none)
TypeBefore(ls, k) ==
    LET H == {j \in 1..(k - 1) : StartsWith(ls[j], TypeMarker)}
    IN  IF H = {} THEN <<>> ELSE AfterFirstSpace(SliceFrom(ls[Last(H)], 7))

\* C3: within one parse pass, the metadata entry of a name is the pair
\* (currentHelp, currentType) in force at the first decoded sample of that name in
\* the pass, whatever HELP line, TYPE line or sample of the name comes later.
C3_FirstSeenWins ==
    pc = "parsing" =>
        \A k \in 1..pos :
            Decodes(lines, k) =>
                LET n == DecodeSample(lines[k]).name
                    f == FirstLineOfName(lines, k)
                IN  /\ n \in DOMAIN help_cache
                    /\ help_cache[n] = [help |-> HelpBefore(lines, f),
                                        type |-> TypeBefore(lines, f)]

\* C4: over any sequence of queries on one index, the fetch-and-parse is run at
\* most once by a query that succeeds, whatever list it returned.
C4_FetchAtMostOnce == query_parses <= 1

\* needle occurs in hay when case is ignored
ContainsNoCase(hay, needle) ==
    \E i \in 0..(Len(hay) - Len(needle)) :
        \A k \in 1..Len(needle) : LowerChar(hay[i + k]) = LowerChar(needle[k])

Matches(s, term) == ContainsNoCase(s.name, term) \/ ContainsNoCase(s.help, term)

\* the positions of the samples that match term and whose name no earlier
\* matching sample has
FirstMatches(list, term) ==
    {i \in 1..Len(list) :
        /\ Matches(list[i], term)
        /\ \A j \in 1..(i - 1) : ~(Matches(list[j], term) /\ list[j].name = list[i].name)}

\* the k-th smallest element of a set of numbers
Kth(S, k) == CHOOSE i \in S : Cardinality({j \in S : j < i}) = k - 1

\* C5: search(term) returns one (name, help, value) per distinct name that has a
\* sample whose name or help contains term, case ignored; help and value are those
\* of the first such matching sample, and the triples are in the order of these
\* samples.
C5_SearchFirstMatch ==
    (pc = "idle" /\ call.op = "search") =>
        LET list == metrics_cache.list
            F == FirstMatches(list, call.arg)
        IN  /\ result.raised = "none"
            /\ Len(result.found) = Cardinality(F)
            /\ \A k \in 1..Len(result.found) :
                  result.found[k] = [name  |-> list[Kth(F, k)].name,
                                     help  |-> list[Kth(F, k)].help,
                                     value |-> list[Kth(F, k)].value]

\* a search whose triple for a name is not that of the first sample of the name
C5_Witness ==
    /\ pc = "idle" /\ call.op = "search"
    /\ \E k \in 1..Len(result.found) :
          \E i \in 1..Len(metrics_cache.list) :
              /\ metrics_cache.list[i].name = result.found[k].name
              /\ \A j \in 1..(i - 1) : metrics_cache.list[j].name # result.found[k].name
              /\ metrics_cache.list[i].help # result.found[k].help

\* the part of a name before its first underscore (the whole name when it has none)
PrefixOf(n) == IF HasChar(n, "_") THEN SubSeq(n, 1, Index(n, "_")) ELSE n

NamesOf(list) == {list[i].name : i \in 1..Len(list)}

FirstSampleOf(list, n) == CHOOSE i \in 1..Len(list) :
    list[i].name = n /\ \A j \in 1..(i - 1) : list[j].name # n

\* C6: groupByPrefix maps every distinct sample name exactly once, under the part
\* of the name before its first underscore; within a key the names are in the
\* order of their first samples, and no key maps to an empty list.
C6_GroupByPrefix ==
    (pc = "idle" /\ call.op = "group") =>
        LET list == metrics_cache.list
            g == result.groups
        IN  /\ result.raised = "none"
            /\ DOMAIN g = {PrefixOf(n) : n \in NamesOf(list)}
            /\ \A key \in DOMAIN g :
                  /\ g[key] # <<>>
                  /\ {g[key][i] : i \in 1..Len(g[key])}
                        = {n \in NamesOf(list) : PrefixOf(n) = key}
                  /\ \A i, j \in 1..Len(g[key]) :
                        i < j => FirstSampleOf(list, g[key][i]) < FirstSampleOf(list, g[key][j])

\* the grouping of the three names of the example
C6_Witness ==
    /\ pc = "idle" /\ call.op = "group"
    /\ Len(metrics_cache.list) = 4
    /\ result.groups = (<<"n","o","d","e">> :> <<NameNodeCpu, NameNodeMemory>>)
                       @@ (<<"g","o">> :> <<NameGoGc>>)

\* C7: details(name) for a name that has no sample in the parsed document reports
\* no type and no help and an empty value list, and raises nothing.
C7_MissingNameAbsent ==
    (/\ pc = "idle" /\ call.op = "details"
     /\ call.arg \notin NamesOf(metrics_cache.list)) =>
        /\ result.raised = "none"
        /\ ~result.details.has_meta
        /\ result.details.values = <<>>

\* p is key=<q>value<q>: word characters, an equals sign, a quoted text
IsLabelPair(p) ==
    \E j \in 2..(Len(p) - 2) :
        /\ \A i \in 1..(j - 1) : IsWordChar(p[i])
        /\ p[j] = "=" /\ p[j + 1] = "\"" /\ p[Len(p)] = "\""
        /\ \A i \in (j + 2)..(Len(p) - 1) : p[i] # "\""

\* the name/label portion of the line opens a brace and either never closes it or
\* holds between the braces something else than pairs separated by commas
MalformedLabels(line) ==
    LET np == BeforeFirstSpace(line)
    IN  /\ HasChar(np, "{")
        /\ \/ ~HasChar(np, "}")
           \/ LET body == Slice(np, Index(np, "{") + 1, RIndex(np, "}"))
              IN  body # <<>> /\ \E i \in 1..Len(Split(body, ",")) :
                                    ~IsLabelPair(Split(body, ",")[i])

\* C8: a sample line whose label syntax is malformed is discarded whole: no
\* sample, no metadata entry, nothing raised, and the loop goes on.
C8_MalformedLabelsDropped ==
    [][(InLoop /\ IsSampleLine(NextLine) /\ MalformedLabels(NextLine)) =>
            (LoopGoesOn /\ metrics' = metrics /\ help_cache' = help_cache)]_vars

\* the index holds the list of a parse that produced zero samples
ParsedEmpty == ~metrics_cache.none /\ metrics_cache.list = <<>>

\* C9: on an index whose parse produced zero samples a query returns at once: an
\* empty mapping, an empty list, an empty value list, and nothing raised.
C9_EmptyIndexAnswersEmpty ==
    [][(pc = "idle" /\ ParsedEmpty) =>
            /\ pc' = "idle"
            /\ result'.raised = "none"
            /\ result'.groups = <<>>
            /\ result'.found = <<>>
            /\ result'.details.values = <<>>]_vars

\* C10: parsing the same text twice, on a fresh index or twice in a row on the
\* same index, yields the same sample sequence and the same metadata mapping.
C10_Idempotent ==
    (pc = "idle" /\ call.op = "fetch" /\ result.raised = "none" /\ previous.returned) =>
        /\ result.samples = previous.samples
        /\ help_cache = previous.meta

\* a second pass that returned samples and metadata
C10_Witness ==
    /\ pc = "idle" /\ call.op = "fetch" /\ result.raised = "none" /\ previous.returned
    /\ Len(result.samples) >= 2
    /\ Cardinality(DOMAIN help_cache) >= 2

\* a query is about to start on an index whose sample list is unpopulated
QueryStarts == pc = "idle" /\ CacheIsFalsy(metrics_cache)

\* show_metric_details, called by choice '3' of interactive after a fetch that
\* stored a falsy list, starts its own fetch
DetailsFetchStarts ==
    pc = "fetched" /\ CacheIsFalsy(metrics_cache) /\ call'.op = "details_fetch"

\* C11: a transport failure during a query is surfaced to the caller of that query
\* as an error, the fetch is not tried again inside the operation, and the index is
\* left as it was (sample list still unpopulated, metadata unchanged), so that the
\* next query attempts the fetch again.
C11_TransportFailureSurfaced ==
    [][(QueryStarts \/ DetailsFetchStarts) =>
          \/ pc' = "parsing" /\ result'.raised = "none"
          \/ /\ pc' = "idle"
             /\ result'.raised = "HTTPError"
             /\ result'.groups = <<>> /\ result'.found = <<>>
             /\ result'.details = NoDetails
             /\ metrics_cache' = metrics_cache
             /\ help_cache' = help_cache
             /\ query_parses' = query_parses
             /\ <<lines, pos, metrics>>' = <<lines, pos, metrics>>
             /\ CacheIsFalsy(metrics_cache')]_vars

\* a query failed on an index that already holds metadata of an earlier attempt
C11_Witness ==
    /\ pc = "idle" /\ call.op = "query" /\ result.raised = "HTTPError"
    /\ CacheIsFalsy(metrics_cache)
    /\ help_cache # <<>>

IsNameStart(c) == c \in Range(UpperChars) \cup Range(LowerChars) \cup {"_", ":"}

IsNameChar(c) == IsNameStart(c) \/ IsDigit(c)

\* first position >= i (1-based) of s that holds no character of a metric name
RECURSIVE NameEnd(_, _)
NameEnd(s, i) == IF i <= Len(s) /\ IsNameChar(s[i]) THEN NameEnd(s, i + 1) ELSE i

\* s from position i on is a list of key=<q>value<q> pairs with commas between them
RECURSIVE IsPairList(_, _)
IsPairList(s, i) ==
    IF i > Len(s) THEN TRUE
    ELSE LET j == WordEnd(s, i)
             k == QuoteAt(s, j + 2)
         IN  /\ j > i
             /\ j + 1 <= Len(s) /\ s[j] = "=" /\ s[j + 1] = "\""
             /\ k <= Len(s)
             /\ k = Len(s) \/ (s[k + 1] = "," /\ IsPairList(s, k + 2))

\* tok is a float token that holds no white space
IsValueToken(tok) ==
    /\ tok # <<>>
    /\ \A i \in 1..Len(tok) : ~IsFloatSpaceChar(tok[i])
    /\ ParseFloat(tok).ok

\* a well-formed sample line: a name, an optional label block of key=<q>value<q>
\* pairs, one space, a float value
WellFormedSample(line) ==
    /\ line # <<>>
    /\ IsNameStart(line[1])
    /\ LET n == NameEnd(line, 1)
       IN  /\ n <= Len(line)
           /\ \/ line[n] = " " /\ IsValueToken(SubSeq(line, n + 1, Len(line)))
              \/ /\ line[n] = "{"
                 /\ HasChar(line, "}")
                 /\ LET c == RIndex(line, "}") + 1
                    IN  /\ c > n
                        /\ IsPairList(SubSeq(line, n + 1, c - 1), 1)
                        /\ c + 1 <= Len(line) /\ line[c + 1] = " "
                        /\ IsValueToken(SubSeq(line, c + 2, Len(line)))

\* the decoding d of a line is the sample smp: same name, value and label set
SameSample(d, smp) ==
    d.ok /\ d.name = smp.name /\ d.value = smp.value /\ d.labels = smp.labels

\* the line is decoded to a sample (the one appended), and the line that sample
\* is re-encoded to decodes to an equivalent sample
RoundTrips ==
    /\ LoopGoesOn
    /\ Len(metrics') = Len(metrics) + 1
    /\ SameSample(DecodeSample(EncodeSample(metrics'[Len(metrics')])),
                  metrics'[Len(metrics')])

\* C12: for every well-formed sample line (name, optional label block of
\* key=<q>value<q> pairs, one space, float value), decoding it and re-encoding the
\* decoded name, labels and value gives a line that decodes to an equivalent
\* sample: same name, same value, same label set.
C12_RoundTrip ==
    [][(InLoop /\ WellFormedSample(NextLine)) => RoundTrips]_vars

\* the same for the lines that the decoder accepts
RoundTripOfDecoded ==
    [][(InLoop /\ IsSampleLine(NextLine) /\ DecodeSample(NextLine).ok) => RoundTrips]_vars

\* the lines of ls that decode to a sample
DecodedLines(ls) == {k \in 1..Len(ls) : Decodes(ls, k)}

\* the metadata a text determines: for every name of a decoded sample, the
\* HELP/TYPE context at the first decoded sample of the name
MetaOfText(ls) ==
    [n \in {DecodeSample(ls[k]).name : k \in DecodedLines(ls)} |->
        LET f == CHOOSE k \in DecodedLines(ls) :
                    /\ DecodeSample(ls[k]).name = n
                    /\ \A j \in DecodedLines(ls) : DecodeSample(ls[j]).name = n => k <= j
        IN  [help |-> HelpBefore(ls, f), type |-> TypeBefore(ls, f)]]

\* the loop of fetch_metrics has handled the last line and is about to return
PassEnds == pc = "parsing" /\ pos = Len(lines)

\* C13: the metadata held by the index after a parse pass depends only on the text
\* of that pass: for every name its entry is the HELP/TYPE context at the first
\* sample of the name in that text, and no entry is carried over from an earlier
\* parse attempt on the same index.
C13_MetaOfThisPassOnly == PassEnds => help_cache = MetaOfText(lines)

\* the line the loop is at decodes to a sample
AtDecodedLine == InLoop /\ IsSampleLine(NextLine) /\ DecodeSample(NextLine).ok

\* C14: the running context is one global pair, not keyed by metric name: every
\* sample's help field is the help text of the most recent HELP line before it in
\* document order (empty when there is none), whichever metric that line named,
\* and the type stored at a name's first sample is the token of the most recent
\* TYPE line before it, whichever metric that line named.
C14_GlobalContext ==
    [][AtDecodedLine =>
          LET d == DecodeSample(NextLine)
              k == pos + 1
          IN  /\ LoopGoesOn
              /\ metrics' = Append(metrics, [name |-> d.name, value |-> d.value,
                                             labels |-> d.labels,
                                             help |-> HelpBefore(lines, k)])
              /\ d.name \in DOMAIN help_cache => help_cache' = help_cache
              /\ d.name \notin DOMAIN help_cache =>
                    /\ DOMAIN help_cache' = DOMAIN help_cache \cup {d.name}
                    /\ help_cache'[d.name] = [help |-> HelpBefore(lines, k),
                                              type |-> TypeBefore(lines, k)]
                    /\ \A n \in DOMAIN help_cache : help_cache'[n] = help_cache[n]]_vars

\* a sample of y_z and its entry took the help and the type of lines that name x,
\* and a later sample of x took the help of a later HELP line
C14_Witness ==
    /\ pc = "parsing"
    /\ \/ /\ lines = <<LineHelpX, LineTypeX, LineYZ>> /\ pos = 3
          /\ metrics[1].name = NameYZ /\ metrics[1].help = <<"C","p","u">>
          /\ help_cache[NameYZ] = [help |-> <<"C","p","u">>,
                                   type |-> <<"c","o","u","n","t","e","r">>]
       \/ /\ lines = Split(TextFirstSeen, "\n") /\ pos = 5
          /\ metrics[2].help = <<"s","e","c","o","n","d">>

\* the positions of the samples of name n
SamplesOf(list, n) == {i \in 1..Len(list) : list[i].name = n}

\* C15: details(name) for a name that has samples reports the type and the help of
\* the metadata entry of the name and lists the (value, labels) of every sample
\* with exactly that name, one entry per sample, in document order, and of no
\* sample with another name.
C15_DetailsOfKnownName ==
    (/\ pc = "idle" /\ call.op = "details"
     /\ call.arg \in NamesOf(metrics_cache.list)) =>
        LET list == metrics_cache.list
            P == SamplesOf(list, call.arg)
            d == result.details
        IN  /\ result.raised = "none"
            /\ call.arg \in DOMAIN help_cache
            /\ d.has_meta
            /\ d.type = help_cache[call.arg].type
            /\ d.help = help_cache[call.arg].help
            /\ Len(d.values) = Cardinality(P)
            /\ \A k \in 1..Len(d.values) :
                  d.values[k] = [value  |-> list[Kth(P, k)].value,
                                 labels |-> list[Kth(P, k)].labels]

\* details of a name with two samples, one with a label, between them a sample of
\* another name; or details of a name whose entry holds a help and a type
C15_Witness ==
    /\ pc = "idle" /\ call.op = "details" /\ call.arg = NameX
    /\ Len(result.details.values) = 2
    /\ \/ /\ Len(metrics_cache.list) = 3
          /\ metrics_cache.list[2].name = NameYZ
          /\ result.details.values[1].labels # result.details.values[2].labels
       \/ /\ result.details.type = <<"c","o","u","n","t","e","r">>
          /\ result.details.help = <<"f","i","r","s","t">>

\* the key and the value of a piece key=<q>value<q>
PairKey(p) == SubSeq(p, 1, Index(p, "="))

PairVal(p) == SubSeq(p, Index(p, "=") + 3, Len(p) - 1)

\* the mapping a list of pieces key=<q>value<q> stands for, a later piece
\* overwriting an earlier one with the same key
MappingOf(ps) ==
    [k \in {PairKey(ps[i]) : i \in 1..Len(ps)} |->
        PairVal(ps[Last({i \in 1..Len(ps) : PairKey(ps[i]) = k})])]

\* the text between the first opening and the last closing brace of np
LabelBlock(np) ==
    SubSeq(np, Index(np, "{") + 2,
           Last({i \in 1..Len(np) : np[i] = "}"}) - 1)

\* C16: the decoder takes the metric name to be the text before the first opening
\* brace of the name/label portion and the labels from the text between that brace
\* and the last closing brace; with no opening brace the whole portion is the name
\* and the label mapping is empty; when a key occurs twice in the label block the
\* mapping holds the value of its last occurrence.
C16_NameAndLabels ==
    [][AtDecodedLine =>
          LET np == BeforeFirstSpace(NextLine)
              smp == metrics'[Len(metrics')]
          IN  /\ Len(metrics') = Len(metrics) + 1
              /\ ~HasChar(np, "{") => (smp.name = np /\ smp.labels = <<>>)
              /\ HasChar(np, "{") =>
                    /\ smp.name = SubSeq(np, 1, Index(np, "{"))
                    /\ LabelBlock(np) = <<>> => smp.labels = <<>>
                    /\ LET ps == Split(LabelBlock(np), ",")
                       IN  (\A i \in 1..Len(ps) : IsLabelPair(ps[i])) =>
                               smp.labels = MappingOf(ps)]_vars

\* a decoded sample whose label block holds braces inside a value, and one whose
\* block holds the same key twice
C16_Witness ==
    /\ pc = "parsing" /\ pos = 2
    /\ \/ lines[2] = LineBraceInValue /\ metrics[Len(metrics)].labels = (<<"a">> :> <<"{","}">>)
       \/ lines[2] = LineDupKey /\ metrics[Len(metrics)].labels = (<<"a">> :> <<"c">>)

\* the index holds a sample list that is not empty
NonEmptyIndex == ~metrics_cache.none /\ metrics_cache.list # <<>>

\* C17: once the index holds a non-empty sample list, groupByPrefix, search and
\* details are read-only: any sequence of these queries leaves the stored sample
\* list and the metadata mapping exactly as the parse left them.
C17_QueriesReadOnly ==
    [][NonEmptyIndex =>
          /\ metrics_cache' = metrics_cache
          /\ help_cache' = help_cache
          /\ query_parses' = query_parses
          /\ pc' = "idle"]_vars

\* a search answered from the stored list of the one parse of the index
C17_Witness ==
    /\ pc = "idle" /\ NonEmptyIndex /\ call.op = "search"
    /\ result.found # <<>>
    /\ lines = <<>> /\ query_parses = 1

\* C18: after any sequence of fetches and queries, every name that occurs in the
\* stored sample list has a metadata entry: a sample is never stored without the
\* entry of its name being present at the end of the same parse pass, and a
\* decoded line adds either both its sample and (if new) its entry or neither.
C18_EverySampleHasEntry ==
    [][/\ \A n \in NamesOf(metrics_cache'.list) \cup NamesOf(metrics') :
              n \in DOMAIN help_cache'
       /\ (InLoop /\ IsSampleLine(NextLine)) =>
              \/ metrics' = metrics /\ help_cache' = help_cache
              \/ /\ Len(metrics') = Len(metrics) + 1
                 /\ SubSeq(metrics', 1, Len(metrics)) = metrics
                 /\ DOMAIN help_cache' = DOMAIN help_cache \cup {metrics'[Len(metrics')].name}
                 /\ \A n \in DOMAIN help_cache : help_cache'[n] = help_cache[n]]_vars

\* a stored list with samples of two names, each with its entry, one of them
\* inserted with no HELP or TYPE line before it
C18_Witness ==
    /\ pc = "idle" /\ NonEmptyIndex
    /\ NamesOf(metrics_cache.list) = {NameX, NameYZ}
    /\ DOMAIN help_cache = {NameX, NameYZ}
    /\ help_cache[NameX] = [help |-> <<>>, type |-> <<>>]

\* a line that starts with '#' and is no HELP or TYPE line, or a line that is
\* empty or holds white space only
SkipLine(line) ==
    \/ StartsWith(line, <<"#">>) /\ ~IsMarkerLine(line)
    \/ \A i \in 1..Len(line) : IsSpaceChar(line[i])

\* C19: a SKIP line has no effect on the parse: currentHelp, currentType, the
\* sample sequence and the metadata mapping are the same after it as before it.
C19_SkipLineNoEffect ==
    [][(InLoop /\ SkipLine(NextLine)) =>
          /\ LoopGoesOn
          /\ current_help' = current_help
          /\ current_type' = current_type
          /\ metrics' = metrics
          /\ help_cache' = help_cache]_vars

\* a sample after a comment (or a blank line) took the help text of the HELP line
\* before the comment
C19_Witness ==
    /\ pc = "parsing" /\ pos = 3
    /\ lines[1] = LineHelpX /\ SkipLine(lines[2]) /\ lines[3] = LineX1
    /\ lines[2] \in {LineCommentNumber, LineBlank}
    /\ Len(metrics) = 1 /\ metrics[1].help = <<"C","p","u">>

====
